---- MODULE Spec2Model ----
(***************************************************************************)
(* Model of src/extract_urls_browser.js: the DOJ file URL extractor, an    *)
(* async function that scans the rendered listing page for PDF links,      *)
(* clicks the "Next page" control, sleeps, and finally downloads the       *)
(* sorted list of the URLs it collected.                                   *)
(*                                                                         *)
(* Strings are TLA+ strings; a JavaScript Set is a duplicate-free sequence *)
(* in insertion order (the order Array.from yields).                       *)
(***************************************************************************)
EXTENDS Integers, Sequences, FiniteSets, TLC

VARIABLES
    pc,          \* position of the async function
    allUrls,     \* the Set of line 19, in insertion order
    currentPage, \* line 20
    foundFiles,  \* line 21
    pageUrls,    \* the const of line 75 (0 before the first scan)
    statusText,  \* lines appended to the #extractStatus panel
    consoleLog,  \* lines written with console.log
    downloads,   \* files offered for download by a.click() of line 107
    listing,     \* the listing the browser shows (fixed during a run)
    domPage,     \* index of the listing page rendered in the document
    clicks,      \* click events dispatched on the next control
    stale,       \* sleeps that ended before the requested page rendered
    lastScan,    \* history: whether a scan has completed, how many have,
                 \* and the page and the anchors the latest one saw
    slept        \* milliseconds of the timers of sleep that have fired

vars == <<pc, allUrls, currentPage, foundFiles, pageUrls, statusText,
          consoleLog, downloads, listing, domPage, clicks, stale, lastScan,
          slept>>

-----------------------------------------------------------------------------
(* Bounds of the model *)

\* listings of 1..MaxShort pages are explored with every page content
MaxShort == 3
\* a sleep may end before the page rendered at most MaxStale times per run
MaxStale == 1
\* ... and only while one of the first MaxSlowPage pages is displayed
MaxSlowPage == 2

(* Constants of the program *)

\* line 88: currentPage > 500
PageLimit == 500
\* line 97: sleep(2000)
SleepMs == 2000
\* line 89: the number of pages the safety-limit warning names
WarnedPages == 500

Range(s) == {s[i] : i \in 1..Len(s)}

-----------------------------------------------------------------------------
(* String primitives *)

\* String.prototype.includes
Includes(s, t) ==
    \E i \in 1..(Len(s) - Len(t) + 1) : SubSeq(s, i, i + Len(t) - 1) = t

\* String.prototype.endsWith
EndsWith(s, t) ==
    /\ Len(s) >= Len(t)
    /\ SubSeq(s, Len(s) - Len(t) + 1, Len(s)) = t

StartsWith(s, t) ==
    /\ Len(s) >= Len(t)
    /\ SubSeq(s, 1, Len(t)) = t

\* UTF-16 code units of the characters that occur in URLs, as runs of
\* consecutive codes: 45..91, 93..95 and 97..122
CodeRuns == <<
    [first |-> 45, chars |-> "-./0123456789:;<=>?@ABCDEFGHIJKLMNOPQRSTUVWXYZ["],
    [first |-> 93, chars |-> "]^_"],
    [first |-> 97, chars |-> "abcdefghijklmnopqrstuvwxyz"] >>

CodeUnit(c) ==
    LET r == CHOOSE k \in 1..Len(CodeRuns) : Includes(CodeRuns[k].chars, c)
        i == CHOOSE j \in 1..Len(CodeRuns[r].chars) :
                 SubSeq(CodeRuns[r].chars, j, j) = c
    IN  CodeRuns[r].first + i - 1

\* a < b in the order of Array.prototype.sort without a comparator:
\* comparison of the strings by UTF-16 code units
RECURSIVE StrLessFrom(_, _, _)
StrLessFrom(a, b, i) ==
    IF i > Len(b) THEN FALSE
    ELSE IF i > Len(a) THEN TRUE
    ELSE IF SubSeq(a, i, i) = SubSeq(b, i, i) THEN StrLessFrom(a, b, i + 1)
    ELSE CodeUnit(SubSeq(a, i, i)) < CodeUnit(SubSeq(b, i, i))

StrLess(a, b) == StrLessFrom(a, b, 1)

-----------------------------------------------------------------------------
(* The document *)

Origin == "https://www.justice.gov"
BaseDir == "https://www.justice.gov/epstein/doj-disclosures/"

\* link.href of an HTML anchor: the href attribute resolved against the
\* document URL
Resolve(href) ==
    IF StartsWith(href, "https://") THEN href
    ELSE IF StartsWith(href, "/") THEN Origin \o href
    ELSE BaseDir \o href

HtmlA(h) == [href |-> h, svg |-> FALSE]
\* an <a> of an inline SVG: its .href is an SVGAnimatedString, not a string
SvgA(h) == [href |-> h, svg |-> TRUE]

\* the anchors of the pages a listing is made of
Pool == <<
    << HtmlA("https://www.justice.gov/epstein/files/abc.pdf"),
       HtmlA("https://www.justice.gov/epstein/files/abc.pdf.html"),
       HtmlA("https://www.justice.gov/other/abc.pdf"),
       HtmlA("/epstein/files/DataSet8/b.pdf"),
       HtmlA("https://www.justice.gov/epstein/files/abc.pdf"),
       HtmlA("https://www.justice.gov/epstein/files/d.PDF") >>,
    << HtmlA("/epstein/files/abc.pdf"),
       HtmlA("files/e.pdf"),
       HtmlA("https://www.justice.gov/epstein/files/Z.pdf"),
       HtmlA("https://www.justice.gov/epstein/files/.pdf/about"),
       HtmlA("https://www.justice.gov/epstein/files/a.pdf") >>,
    << >>,
    << HtmlA("https://www.justice.gov/epstein/files/s1.pdf"),
       SvgA("/epstein/files/icon.pdf"),
       HtmlA("https://www.justice.gov/epstein/files/s2.pdf") >>
>>

TailAnchor == HtmlA("https://www.justice.gov/epstein/files/last.pdf")

\* anchors of page i of listing l
PageAnchors(l, i) ==
    LET body == Pool[l.cycle[((i - 1) % Len(l.cycle)) + 1]]
    IN  IF l.tail /\ i = l.n THEN Append(body, TailAnchor) ELSE body

\* the anchor labelled Next page on page i of listing l
NextControl(l, i) == IF i < l.n THEN "enabled" ELSE l.lastNext

ShortCycles ==
    {<<a>> : a \in 1..Len(Pool)} \cup
    {<<a, b>> : a \in 1..Len(Pool), b \in 1..Len(Pool)}

ShortListings ==
    [n : 1..MaxShort, cycle : ShortCycles,
     lastNext : {"absent", "disabled"}, tail : BOOLEAN]

\* listings that reach the page limit: one that ends on the last page the
\* loop can scan and one that is a page longer
LongListings ==
    [n : {PageLimit + 1, PageLimit + 2}, cycle : {<<1, 2, 3>>},
     lastNext : {"absent", "disabled"}, tail : {TRUE}]

Listings == ShortListings \cup LongListings

-----------------------------------------------------------------------------
(* The functions of the script *)

\* an array push in place of the set
SetAddAlways(s, u) == Append(s, u)

\* Set.prototype.add
SetAdd(s, u) == IF u \in Range(s) THEN s ELSE Append(s, u)

\* line 44: querySelectorAll of the anchors whose href attribute contains .pdf
QuerySelectorAll(anchors) ==
    SelectSeq(anchors, LAMBDA a : Includes(a.href, ".pdf"))

\* a filter with or in place of and
MatchesEither(url) == Includes(url, "/epstein/files/") \/ EndsWith(url, ".pdf")

\* a filter that forgets the path test
MatchesSuffixOnly(url) == EndsWith(url, ".pdf")

\* the condition of line 49
Matches(url) == Includes(url, "/epstein/files/") /\ EndsWith(url, ".pdf")

\* a loop that counts only the URLs that are new to the set
RECURSIVE ForEachLinkCountsNew(_, _, _, _)
ForEachLinkCountsNew(links, i, urls, pageCount) ==
    IF i > Len(links)
    THEN [urls |-> urls, pageCount |-> pageCount, threw |-> FALSE]
    ELSE IF links[i].svg
    THEN [urls |-> urls, pageCount |-> pageCount, threw |-> TRUE]
    ELSE LET url == Resolve(links[i].href)
         IN  IF Matches(url)
             THEN ForEachLinkCountsNew(links, i + 1, SetAdd(urls, url),
                      IF url \in Range(urls) THEN pageCount
                      ELSE pageCount + 1)
             ELSE ForEachLinkCountsNew(links, i + 1, urls, pageCount)

\* links.forEach of lines 47-53 from link i on; url.includes of an
\* SVGAnimatedString is not a function, and the call throws
RECURSIVE ForEachLink(_, _, _, _)
ForEachLink(links, i, urls, pageCount) ==
    IF i > Len(links)
    THEN [urls |-> urls, pageCount |-> pageCount, threw |-> FALSE]
    ELSE IF links[i].svg
    THEN [urls |-> urls, pageCount |-> pageCount, threw |-> TRUE]
    ELSE LET url == Resolve(links[i].href)
         IN  IF Matches(url)
             THEN ForEachLink(links, i + 1, SetAdd(urls, url), pageCount + 1)
             ELSE ForEachLink(links, i + 1, urls, pageCount)

\* a scan that collects into a set created anew for the page
extractUrlsIntoNewSet(anchors, urls) ==
    ForEachLink(QuerySelectorAll(anchors), 1, << >>, 0)

extractUrlsFromCurrentPage(anchors, urls) ==
    ForEachLink(QuerySelectorAll(anchors), 1, urls, 0)

\* a check that asks the class list without looking for the button first
hasNextPageNoNullCheck(control) == control # "disabled"

\* a check that only looks for the button
hasNextPageIgnoresDisabled(control) == control # "absent"

\* line 61, as a condition: the button exists and has no class disabled
hasNextPage(control) == control # "absent" /\ control # "disabled"

\* goToNextPage: whether the control is clicked (and true returned)
goToNextPage(control) == control # "absent"

\* a limit test that trips one page late
OverLimitLate(page) == page > PageLimit + 1

\* a limit test that trips one page early
OverLimitFromLimit(page) == page >= PageLimit

\* the condition of line 88
OverLimit(page) == page > PageLimit

\* Array.prototype.sort without comparator, as an insertion sort
RECURSIVE Insert(_, _)
Insert(sorted, u) ==
    IF sorted = << >> THEN <<u>>
    ELSE IF StrLess(u, Head(sorted)) THEN <<u>> \o sorted
    ELSE <<Head(sorted)>> \o Insert(Tail(sorted), u)

RECURSIVE SortFrom(_, _, _)
SortFrom(arr, i, acc) ==
    IF i > Len(arr) THEN acc ELSE SortFrom(arr, i + 1, Insert(acc, arr[i]))

\* a sort that leaves the array in insertion order
SortNothing(arr) == arr

Sort(arr) == SortFrom(arr, 1, << >>)

\* Array.prototype.join
RECURSIVE Join(_, _)
Join(arr, sep) ==
    IF arr = << >> THEN ""
    ELSE IF Len(arr) = 1 THEN arr[1]
    ELSE arr[1] \o sep \o Join(Tail(arr), sep)

\* line 101
urlList(urls) == Join(Sort(urls), "\n")

-----------------------------------------------------------------------------
(* The run *)

Init ==
    /\ pc = "scan"
    /\ allUrls = << >>
    /\ currentPage = 0
    /\ foundFiles = 0
    /\ pageUrls = 0
    /\ statusText = << [kind |-> "starting"] >>
    /\ consoleLog = << [kind |-> "start"] >>
    /\ downloads = << >>
    /\ listing \in Listings
    /\ domPage = 1
    /\ clicks = 0
    /\ stale = 0
    /\ lastScan = [done |-> FALSE, count |-> 0, page |-> 0, anchors |-> << >>]
    /\ slept = 0

\* a scan inside try/catch that goes on with what it has
ScanSwallowsError ==
    /\ pc = "scan"
    /\ LET r == extractUrlsFromCurrentPage(PageAnchors(listing, domPage), allUrls)
       IN  /\ allUrls' = r.urls
           /\ pageUrls' = r.pageCount
    /\ pc' = "report"
    /\ lastScan' = [done |-> TRUE, count |-> lastScan.count + 1,
                    page |-> domPage,
                    anchors |-> PageAnchors(listing, domPage)]
    /\ UNCHANGED <<currentPage, foundFiles, statusText, consoleLog, downloads,
                   listing, domPage, clicks, stale, slept>>

\* line 75: await extractUrlsFromCurrentPage(); an exception rejects the
\* promise of the async function and nothing after line 75 runs
Scan ==
    /\ pc = "scan"
    /\ LET r == extractUrlsFromCurrentPage(PageAnchors(listing, domPage), allUrls)
       IN  /\ allUrls' = r.urls
           /\ pageUrls' = IF r.threw THEN pageUrls ELSE r.pageCount
           /\ pc' = IF r.threw THEN "aborted" ELSE "report"
           /\ lastScan' = IF r.threw THEN lastScan
                          ELSE [done |-> TRUE,
                                count |-> lastScan.count + 1,
                                page |-> domPage,
                                anchors |-> PageAnchors(listing, domPage)]
    /\ UNCHANGED <<currentPage, foundFiles, statusText, consoleLog, downloads,
                   listing, domPage, clicks, stale, slept>>

\* a status step that assigns the count of the page to the running sum
ReportOverwritesFound ==
    /\ pc = "report"
    /\ foundFiles' = pageUrls
    /\ currentPage' = currentPage + 1
    /\ LET msg == [kind |-> "page", page |-> currentPage + 1,
                   found |-> pageUrls, total |-> Len(allUrls)]
       IN  /\ statusText' = Append(statusText, msg)
           /\ consoleLog' = Append(consoleLog, msg)
    /\ pc' = "hasNext"
    /\ UNCHANGED <<allUrls, pageUrls, downloads, listing, domPage, clicks, stale,
                   lastScan, slept>>

\* lines 76-81
Report ==
    /\ pc = "report"
    /\ foundFiles' = foundFiles + pageUrls
    /\ currentPage' = currentPage + 1
    /\ LET msg == [kind |-> "page", page |-> currentPage + 1,
                   found |-> pageUrls, total |-> Len(allUrls)]
       IN  /\ statusText' = Append(statusText, msg)
           /\ consoleLog' = Append(consoleLog, msg)
    /\ pc' = "hasNext"
    /\ UNCHANGED <<allUrls, pageUrls, downloads, listing, domPage, clicks, stale,
                   lastScan, slept>>

\* the two checks of the loop in the other order: the limit first
CheckLimitBeforeNext ==
    /\ pc = "hasNext"
    /\ IF OverLimit(currentPage)
       THEN /\ statusText' = Append(statusText,
                                    [kind |-> "limit", pages |-> WarnedPages])
            /\ consoleLog' = Append(consoleLog,
                                    [kind |-> "limit", pages |-> WarnedPages])
            /\ pc' = "download"
       ELSE IF ~hasNextPage(NextControl(listing, domPage))
       THEN /\ statusText' = Append(statusText, [kind |-> "last"])
            /\ consoleLog' = Append(consoleLog, [kind |-> "last"])
            /\ pc' = "download"
       ELSE /\ pc' = "limit"
            /\ UNCHANGED <<statusText, consoleLog>>
    /\ UNCHANGED <<allUrls, currentPage, foundFiles, pageUrls, downloads,
                   listing, domPage, clicks, stale, lastScan, slept>>

\* lines 83-86
CheckNext ==
    /\ pc = "hasNext"
    /\ IF ~hasNextPage(NextControl(listing, domPage))
       THEN /\ statusText' = Append(statusText, [kind |-> "last"])
            /\ consoleLog' = Append(consoleLog, [kind |-> "last"])
            /\ pc' = "download"
       ELSE /\ pc' = "limit"
            /\ UNCHANGED <<statusText, consoleLog>>
    /\ UNCHANGED <<allUrls, currentPage, foundFiles, pageUrls, downloads,
                   listing, domPage, clicks, stale, lastScan, slept>>

\* a limit check that returns from the function instead of leaving the loop
CheckLimitReturns ==
    /\ pc = "limit"
    /\ IF OverLimit(currentPage)
       THEN /\ statusText' = Append(statusText, [kind |-> "limit", pages |-> WarnedPages])
            /\ consoleLog' = Append(consoleLog, [kind |-> "limit", pages |-> WarnedPages])
            /\ pc' = "done"
       ELSE /\ pc' = "click"
            /\ UNCHANGED <<statusText, consoleLog>>
    /\ UNCHANGED <<allUrls, currentPage, foundFiles, pageUrls, downloads,
                   listing, domPage, clicks, stale, lastScan, slept>>

\* lines 88-91
CheckLimit ==
    /\ pc = "limit"
    /\ IF OverLimit(currentPage)
       THEN /\ statusText' = Append(statusText, [kind |-> "limit", pages |-> WarnedPages])
            /\ consoleLog' = Append(consoleLog, [kind |-> "limit", pages |-> WarnedPages])
            /\ pc' = "download"
       ELSE /\ pc' = "click"
            /\ UNCHANGED <<statusText, consoleLog>>
    /\ UNCHANGED <<allUrls, currentPage, foundFiles, pageUrls, downloads,
                   listing, domPage, clicks, stale, lastScan, slept>>

\* a click after which the loop scans at once, without the sleep
ClickWithoutPause ==
    /\ pc = "click"
    /\ clicks' = IF goToNextPage(NextControl(listing, domPage))
                 THEN clicks + 1 ELSE clicks
    /\ pc' = "scan"
    /\ UNCHANGED <<allUrls, currentPage, foundFiles, pageUrls, statusText,
                   consoleLog, downloads, listing, domPage, stale, lastScan,
                   slept>>

\* a click that counts the page as well
ClickAdvancesCursor ==
    /\ pc = "click"
    /\ clicks' = IF goToNextPage(NextControl(listing, domPage))
                 THEN clicks + 1 ELSE clicks
    /\ currentPage' = currentPage + 1
    /\ pc' = "sleep"
    /\ UNCHANGED <<allUrls, foundFiles, pageUrls, statusText, consoleLog,
                   downloads, listing, domPage, stale, lastScan, slept>>

\* line 94
Click ==
    /\ pc = "click"
    /\ clicks' = IF goToNextPage(NextControl(listing, domPage))
                 THEN clicks + 1 ELSE clicks
    /\ pc' = "sleep"
    /\ UNCHANGED <<allUrls, currentPage, foundFiles, pageUrls, statusText,
                   consoleLog, downloads, listing, domPage, stale, lastScan,
                   slept>>

\* line 97: the timer fires after SleepMs; by then the page requested by the
\* click has rendered (loaded) or the document still shows the old page
Sleep(loaded) ==
    /\ pc = "sleep"
    /\ \/ /\ loaded
          /\ domPage' = IF NextControl(listing, domPage) = "enabled"
                        THEN domPage + 1 ELSE domPage
          /\ stale' = stale
       \/ /\ ~loaded
          /\ NextControl(listing, domPage) = "enabled"
          /\ stale < MaxStale
          /\ domPage <= MaxSlowPage
          /\ domPage' = domPage
          /\ stale' = stale + 1
    /\ slept' = slept + SleepMs
    /\ pc' = "scan"
    /\ UNCHANGED <<allUrls, currentPage, foundFiles, pageUrls, statusText,
                   consoleLog, downloads, listing, clicks, lastScan>>

\* lines 101-113
Download ==
    /\ pc = "download"
    /\ downloads' = Append(downloads, [name |-> "dataset8_urls.txt",
                                       content |-> urlList(allUrls)])
    /\ statusText' = Append(statusText, [kind |-> "done", urls |-> Len(allUrls)])
    /\ consoleLog' = consoleLog \o
                     << [kind |-> "done", urls |-> Len(allUrls)],
                        [kind |-> "complete"],
                        [kind |-> "summary", urls |-> Len(allUrls),
                         pages |-> currentPage] >>
    /\ pc' = "done"
    /\ UNCHANGED <<allUrls, currentPage, foundFiles, pageUrls, listing,
                   domPage, clicks, stale, lastScan, slept>>

Next ==
    \/ Scan
    \/ Report
    \/ CheckNext
    \/ CheckLimit
    \/ Click
    \/ \E loaded \in BOOLEAN : Sleep(loaded)
    \/ Download

Spec == Init /\ [][Next]_vars

-----------------------------------------------------------------------------
(* Vocabulary of the properties *)

Last(s) == s[Len(s)]

Logged(kind) == \E i \in 1..Len(statusText) : statusText[i].kind = kind

\* the lines of kind page of the status panel, in order
PageLines == SelectSeq(statusText, LAMBDA m : m.kind = "page")

\* the loop has been left by one of its two break statements
Exited == pc \in {"download", "done"}

\* the state of the run in the terms of the state machine
RunState ==
    IF Logged("last") THEN "exhausted"
    ELSE IF Logged("limit") THEN "limit-reached"
    ELSE IF pc = "aborted" THEN "aborted"
    ELSE "running"

\* the destination of anchor a contains the path and ends with the suffix
PassesFilter(a) ==
    /\ Includes(Resolve(a.href), "/epstein/files/")
    /\ EndsWith(Resolve(a.href), ".pdf")

\* the anchors of a page the scan looks at
Candidates(anchors) == {a \in Range(anchors) : Includes(a.href, ".pdf")}

\* the page the document shows
Shown == PageAnchors(listing, domPage)

\* text.split(sep) for a one-character separator: the pieces between
\* consecutive cuts, the cuts being the separators and the two ends
Split(text, sep) ==
    LET cuts == {0, Len(text) + 1} \cup
                {i \in 1..Len(text) : SubSeq(text, i, i) = sep}
        cut(k) == CHOOSE c \in cuts : Cardinality({d \in cuts : d < c}) = k - 1
    IN  [k \in 1..(Cardinality(cuts) - 1) |->
            SubSeq(text, cut(k) + 1, cut(k + 1) - 1)]

Lines(text) == Split(text, "\n")

-----------------------------------------------------------------------------
(* C1 *)

\* C1: after a scan has returned, every candidate anchor of the scanned page
\* has its destination URL in the URL set if and only if the URL contains
\* /epstein/files/ and ends with .pdf; the three example links of the
\* specification are included, excluded and excluded.
FilterCorrect ==
    pc = "report" =>
        /\ \A a \in Candidates(Shown) :
               Resolve(a.href) \in Range(allUrls) <=> PassesFilter(a)
        /\ \A a \in Range(Shown) :
               /\ a.href = "https://www.justice.gov/epstein/files/abc.pdf"
                      => Resolve(a.href) \in Range(allUrls)
               /\ a.href = "https://www.justice.gov/epstein/files/abc.pdf.html"
                      => Resolve(a.href) \notin Range(allUrls)
               /\ a.href = "https://www.justice.gov/other/abc.pdf"
                      => Resolve(a.href) \notin Range(allUrls)

\* a scan of a page with links of both kinds has returned
FilterCorrectWitness ==
    /\ pc = "report"
    /\ \E a, b, c \in Candidates(Shown) :
           /\ PassesFilter(a)
           /\ ~Includes(Resolve(b.href), "/epstein/files/")
           /\ EndsWith(Resolve(b.href), ".pdf")
           /\ Includes(Resolve(c.href), "/epstein/files/")
           /\ ~EndsWith(Resolve(c.href), ".pdf")

-----------------------------------------------------------------------------
(* C2 *)

Progress ==
    6 * currentPage +
        CASE pc = "hasNext" -> 0
          [] pc = "limit" -> 1
          [] pc = "click" -> 2
          [] pc = "sleep" -> 3
          [] pc = "scan" -> 4
          [] pc = "report" -> 5
          [] pc = "download" -> 6
          [] pc = "done" -> 7
          [] pc = "aborted" -> 7

ExhaustsAfterN ==
    (stale = 0 /\ listing.n <= PageLimit + 1) =>
        /\ currentPage <= listing.n
        /\ Progress <= 6 * listing.n + 7
        /\ ~Logged("limit")
        /\ Exited =>
               /\ RunState = "exhausted"
               /\ currentPage = listing.n
               /\ Len(PageLines) = listing.n

-----------------------------------------------------------------------------
(* C3 *)

\* C3: no run performs a 502nd scan; a run whose every next-page check
\* reported a present and enabled control leaves the loop in the
\* limit-reached state after exactly 501 scans, and the safety-limit line is
\* logged in no other situation.
SafetyBound ==
    /\ currentPage <= PageLimit + 1
    /\ pc \in {"scan", "report"} => currentPage <= PageLimit
    /\ (Exited /\ ~Logged("last")) =>
           /\ RunState = "limit-reached"
           /\ currentPage = PageLimit + 1
           /\ Len(PageLines) = PageLimit + 1
    /\ Logged("limit") => (Exited /\ currentPage = PageLimit + 1)

\* a run has finished on the safety limit
SafetyBoundWitness ==
    /\ pc = "done"
    /\ RunState = "limit-reached"
    /\ ~Logged("last")
    /\ Len(PageLines) = PageLimit + 1

-----------------------------------------------------------------------------
(* C4 *)

\* C4: the content of the downloaded file is exactly the elements of the URL
\* set at loop exit, each on one line and once, in ascending order of their
\* code units, separated by single newlines without a trailing one (the
\* empty string for the empty set); it is determined by the set alone.
OutputDeterminism ==
    pc = "done" =>
        LET content == downloads[1].content
        IN  IF allUrls = << >> THEN content = ""
            ELSE /\ Range(Lines(content)) = Range(allUrls)
                 /\ Len(Lines(content)) = Cardinality(Range(allUrls))
                 /\ \A i \in 1..(Len(Lines(content)) - 1) :
                        StrLess(Lines(content)[i], Lines(content)[i + 1])
                 /\ SubSeq(content, Len(content), Len(content)) # "\n"

\* a download of a set whose insertion order is not the sorted order
OutputDeterminismWitness ==
    /\ pc = "done"
    /\ Len(allUrls) >= 3
    /\ \E i \in 1..(Len(allUrls) - 1) : StrLess(allUrls[i + 1], allUrls[i])
    /\ Len(Lines(downloads[1].content)) = Len(allUrls)

-----------------------------------------------------------------------------
(* C5 *)

\* C5: when a run over an N-page listing whose every click advanced one page
\* has finished, every URL that passes the filter on any of the N pages is a
\* line of the downloaded file.
CompleteOverAllPages ==
    (pc = "done" /\ stale = 0) =>
        \A i \in 1..listing.n :
            \A a \in Range(PageAnchors(listing, i)) :
                PassesFilter(a) =>
                    Resolve(a.href) \in Range(Lines(downloads[1].content))

-----------------------------------------------------------------------------
(* C6 *)

\* C6: a scan of the page content that the previous scan saw leaves the URL
\* set, and so its size, unchanged, and the iteration still advances the
\* page cursor by one.
IdempotentAccumulation ==
    /\ [][(pc = "scan" /\ pc' = "report" /\ lastScan.done
               /\ Shown = lastScan.anchors) =>
              (allUrls' = allUrls /\ Len(allUrls') = Len(allUrls))]_vars
    /\ [][pc = "report" => currentPage' = currentPage + 1]_vars

\* the first page, which has matching links, was scanned twice because the
\* first click had not changed the page in time
IdempotentAccumulationWitness ==
    /\ pc = "hasNext"
    /\ stale = 1
    /\ currentPage = 2
    /\ domPage = 1
    /\ PageLines[2].found > 0
    /\ PageLines[2].total = PageLines[1].total

-----------------------------------------------------------------------------
(* C7 *)

\* C7: the status line appended after a scan carries the page cursor, the
\* number of anchors of the scanned page that pass the filter (repeated and
\* already known URLs counted), and the size of the URL set after the scan;
\* there is one such line per scan, and the console gets the same line.
PerPageReporting ==
    pc = "hasNext" =>
        /\ Last(statusText).kind = "page"
        /\ Last(statusText).page = currentPage
        /\ Last(statusText).found =
               Cardinality({i \in 1..Len(Shown) :
                   /\ Includes(Shown[i].href, ".pdf")
                   /\ PassesFilter(Shown[i])})
        /\ Last(statusText).total = Cardinality(Range(allUrls))
        /\ Len(PageLines) = currentPage
        /\ Last(consoleLog) = Last(statusText)

\* a status line whose count is larger than the growth of the set
PerPageReportingWitness ==
    /\ pc = "hasNext"
    /\ currentPage >= 2
    /\ Last(statusText).found > 0
    /\ Last(statusText).found >
           Last(statusText).total - PageLines[currentPage - 1].total

-----------------------------------------------------------------------------
(* C8 *)

FinalizedOnce ==
    /\ Len(downloads) <= 1
    /\ downloads # << >> <=> pc = "done"
    /\ Exited <=> (Logged("last") \/ Logged("limit"))
    /\ ~(Logged("last") /\ Logged("limit"))

\* C8: the download is triggered at most once, it has been triggered exactly
\* when the run is done, the run gets there only through one of the two exits
\* of the loop, each exit is followed by the download as its next step, and
\* after the download nothing happens any more.
Finalization ==
    /\ []FinalizedOnce
    /\ [][pc = "download" => (pc' = "done" /\ Len(downloads') = 1)]_vars
    /\ [][pc # "done"]_vars

\* the download has happened after the exit by the safety limit
FinalizationWitness ==
    /\ pc = "done"
    /\ RunState = "limit-reached"
    /\ Len(downloads) = 1

-----------------------------------------------------------------------------
(* C9 *)

\* the scan of the page shown throws
ScanThrows == \E a \in Candidates(Shown) : a.svg

AbortedClean ==
    pc = "aborted" =>
        /\ downloads = << >>
        /\ ~Logged("last") /\ ~Logged("limit") /\ ~Logged("done")
        /\ Len(PageLines) = currentPage

\* C9: a scan that throws ends the run in that iteration: the cursor, the
\* logs, the clicks and the downloads are as they were before the scan, no
\* step follows, and so nothing is ever downloaded.
AbortOnScanError ==
    /\ []AbortedClean
    /\ [][(pc = "scan" /\ ScanThrows) =>
              /\ pc' = "aborted"
              /\ UNCHANGED <<currentPage, foundFiles, statusText, consoleLog,
                             downloads, clicks, domPage>>]_vars
    /\ [][pc # "aborted"]_vars

\* a run aborted with URLs collected and nothing downloaded
AbortOnScanErrorWitness ==
    /\ pc = "aborted"
    /\ currentPage >= 1
    /\ allUrls # << >>
    /\ downloads = << >>

-----------------------------------------------------------------------------
(* C10 *)

\* C10: a page without matching anchors gives a count of 0, the loop goes on
\* past the next-page check only when the control is there, and a run started
\* on a one-page listing with neither scans once, reports 0 files, exits as
\* exhausted without a click, and offers the empty file; it never aborts.
SelectorMissDegrades ==
    /\ (pc = "report" /\ Candidates(Shown) = {}) => pageUrls = 0
    /\ pc \in {"limit", "click", "sleep"} =>
           NextControl(listing, domPage) # "absent"
    /\ (listing.n = 1 /\ listing.lastNext = "absent"
            /\ Candidates(PageAnchors(listing, 1)) = {}) =>
           /\ pc \in {"scan", "report", "hasNext", "download", "done"}
           /\ currentPage <= 1
           /\ clicks = 0
           /\ pc = "done" =>
                  /\ statusText =
                         << [kind |-> "starting"],
                            [kind |-> "page", page |-> 1, found |-> 0,
                             total |-> 0],
                            [kind |-> "last"],
                            [kind |-> "done", urls |-> 0] >>
                  /\ downloads = << [name |-> "dataset8_urls.txt",
                                     content |-> ""] >>

\* such a run has finished
SelectorMissDegradesWitness ==
    /\ pc = "done"
    /\ listing.n = 1
    /\ listing.lastNext = "absent"
    /\ Shown = << >>
    /\ currentPage = 1
    /\ downloads[1].content = ""

-----------------------------------------------------------------------------
(* C11 *)

\* the summary line of the console agrees with the downloaded file
SummaryCountsLines ==
    (pc = "done" /\ allUrls # << >>) =>
        /\ Last(consoleLog).kind = "summary"
        /\ Last(consoleLog).urls = Len(Lines(downloads[1].content))
        /\ Last(statusText).urls = Len(Lines(downloads[1].content))

\* C11: no step removes a URL from the set (the set after a step contains
\* the set before it, in the same insertion order), no step changes the set
\* once the loop has been left, and the count of the final summary is the
\* number of lines of the downloaded file when the set is not empty.
MonotoneUrlSet ==
    /\ [][/\ Range(allUrls) \subseteq Range(allUrls')
          /\ Len(allUrls) <= Len(allUrls')
          /\ SubSeq(allUrls', 1, Len(allUrls)) = allUrls]_vars
    /\ [][Exited => allUrls' = allUrls]_vars
    /\ []SummaryCountsLines

\* a finished run whose set grew on the first and again on the second scan
MonotoneUrlSetWitness ==
    /\ pc = "done"
    /\ currentPage >= 2
    /\ PageLines[1].total > 0
    /\ PageLines[2].total > PageLines[1].total
    /\ Last(consoleLog).urls = Len(allUrls)

-----------------------------------------------------------------------------
(* C12 *)

\* the cursor is the number of scans that have returned; between the return
\* of a scan (line 75) and the increment of the same iteration (line 77) the
\* scan just made is not counted yet
CursorIsScanCount ==
    /\ currentPage \in 0..(PageLimit + 1)
    /\ lastScan.count = 0 => currentPage = 0
    /\ pc # "report" => currentPage = lastScan.count
    /\ pc = "report" => currentPage + 1 = lastScan.count
    /\ pc = "done" =>
           /\ Last(consoleLog).kind = "summary"
           /\ Last(consoleLog).pages = lastScan.count

\* C12: the page cursor is 0 before the first scan, every iteration adds
\* exactly one to it (in its status step, once per scan), no other step
\* changes it, it is the number of scans performed and lies in 0..501, and
\* the pages of the final summary are the scans performed.
CursorCountsScans ==
    /\ []CursorIsScanCount
    /\ [][pc = "report" => currentPage' = currentPage + 1]_vars
    /\ [][pc # "report" => currentPage' = currentPage]_vars

\* a finished run of three scans, one of them a second scan of a page
CursorCountsScansWitness ==
    /\ pc = "done"
    /\ stale = 1
    /\ currentPage = 3
    /\ lastScan.count = 3
    /\ Last(consoleLog).pages = 3

-----------------------------------------------------------------------------
(* C13 *)

\* the terminal messages of the status panel
TerminalLines ==
    SelectSeq(statusText, LAMBDA m : m.kind \in {"last", "limit"})

\* C13: the limit check is reached only after a next-page check that found
\* the control present and enabled; the safety-limit warning is logged only
\* with the cursor above 500 and the control of the scanned page present and
\* enabled; a run that leaves the loop at cursor 501 on a page whose control
\* is absent or disabled is exhausted and has logged no warning; a run that
\* has left the loop has logged exactly one terminal message, and a run that
\* has not has logged none.
NextCheckPrecedesLimit ==
    /\ pc = "limit" => NextControl(listing, domPage) = "enabled"
    /\ Logged("limit") =>
           /\ currentPage > PageLimit
           /\ NextControl(listing, domPage) = "enabled"
           /\ ~Logged("last")
    /\ (Exited /\ currentPage = PageLimit + 1
            /\ NextControl(listing, domPage) # "enabled") =>
           /\ RunState = "exhausted"
           /\ ~Logged("limit")
    /\ Len(TerminalLines) = IF Exited THEN 1 ELSE 0

\* a run exhausted at cursor 501
NextCheckPrecedesLimitWitness ==
    /\ pc = "done"
    /\ currentPage = PageLimit + 1
    /\ NextControl(listing, domPage) # "enabled"
    /\ TerminalLines = << [kind |-> "last"] >>

-----------------------------------------------------------------------------
(* C14 *)

\* the step that follows each step of an iteration, and the step that
\* precedes a pause and a scan
StepOrder ==
    /\ pc = "scan" => pc' \in {"report", "aborted"}
    /\ pc = "report" =>
           /\ pc' = "hasNext"
           /\ Len(statusText') = Len(statusText) + 1
           /\ Last(statusText').kind = "page"
    /\ pc = "hasNext" => pc' \in {"limit", "download"}
    /\ pc = "limit" => pc' \in {"click", "download"}
    /\ pc = "click" => (pc' = "sleep" /\ clicks' = clicks + 1)
    /\ pc = "sleep" => (pc' = "scan" /\ slept' = slept + SleepMs)
    /\ pc' = "sleep" => pc = "click"
    /\ pc' = "scan" => pc = "sleep"
    /\ slept' # slept => pc = "sleep"

\* clicks, pauses and scans are counted alike: before scan k + 1 there have
\* been k clicks and k pauses of SleepMs
PausesMatchClicks ==
    /\ pc = "scan" => (clicks = lastScan.count /\ currentPage = clicks)
    /\ pc = "sleep" => slept = SleepMs * (clicks - 1)
    /\ pc # "sleep" => slept = SleepMs * clicks
    /\ pc \in {"hasNext", "limit", "click"} => clicks = currentPage - 1

\* C14: in an iteration the steps follow each other in the order scan,
\* status line, next-page check, limit check, click, pause; a click is
\* followed by exactly one pause of the fixed length and then by a scan, a
\* pause only follows a click, and a scan other than the first only follows
\* a pause.
AdvanceThenPause ==
    /\ [][StepOrder]_vars
    /\ []PausesMatchClicks

\* the third scan is about to start after two clicks and two pauses
AdvanceThenPauseWitness ==
    /\ pc = "scan"
    /\ lastScan.count = 2
    /\ clicks = 2
    /\ slept = 2 * SleepMs

-----------------------------------------------------------------------------
(* C15 *)

\* C15: whenever the safety-limit warning is logged, the number of pages
\* scanned is the number of pages the warning names, 500.
LimitIsWarnedPages ==
    \A i \in 1..Len(statusText) :
        statusText[i].kind = "limit" =>
            /\ statusText[i].pages = 500
            /\ lastScan.count = statusText[i].pages
            /\ currentPage = statusText[i].pages

-----------------------------------------------------------------------------
(* C16 *)

\* the states of the next control
Controls == {"absent", "disabled", "enabled"}

\* what the two functions answer for each state of the control, and for
\* the control of every page of the listing
ControlFunctions ==
    /\ \A c \in Controls :
           /\ hasNextPage(c) <=> c = "enabled"
           /\ goToNextPage(c) <=> c \in {"disabled", "enabled"}
    /\ hasNextPage(NextControl(listing, domPage)) =>
           goToNextPage(NextControl(listing, domPage))

ClickAllowed ==
    /\ pc \in {"limit", "click"} => hasNextPage(NextControl(listing, domPage))
    /\ pc = "click" =>
           /\ NextControl(listing, domPage) = "enabled"
           /\ currentPage <= PageLimit
    /\ clicks <= PageLimit

\* C16: hasNextPage is true exactly for a control that exists and is not
\* disabled, goToNextPage clicks and returns true exactly for a control that
\* exists, disabled or not; in the run a click is dispatched only by the
\* click step, one at a time, after a next-page check that was true, with
\* the cursor at most 500 and on an enabled control, and there are never
\* more than 500 clicks.
ClicksGuarded ==
    /\ [](ControlFunctions /\ ClickAllowed)
    /\ [][clicks' # clicks =>
              /\ pc = "click"
              /\ clicks' = clicks + 1
              /\ NextControl(listing, domPage) = "enabled"
              /\ currentPage <= PageLimit]_vars

\* the 500th click has been dispatched
ClicksGuardedWitness ==
    /\ pc = "sleep"
    /\ clicks = PageLimit
    /\ currentPage = PageLimit

-----------------------------------------------------------------------------
(* C17 *)

\* the pages of the listing a scan has looked at: those up to the page of
\* the latest scan that returned, and the page whose scan threw
ScannedPages ==
    1..lastScan.page \cup (IF pc = "aborted" THEN {domPage} ELSE {})

\* u has the path and the suffix and is the destination of an anchor of a
\* scanned page
SoundUrl(u) ==
    /\ Includes(u, "/epstein/files/")
    /\ EndsWith(u, ".pdf")
    /\ \E i \in ScannedPages :
           \E a \in Range(PageAnchors(listing, i)) : Resolve(a.href) = u

\* C17: every element of the URL set contains /epstein/files/, ends with
\* .pdf and is the destination of an anchor of a page that was scanned, and
\* so is every line of the downloaded file of a non-empty set.
SoundUrlSet ==
    /\ \A u \in Range(allUrls) : SoundUrl(u)
    /\ (pc = "done" /\ allUrls # << >>) =>
           \A u \in Range(Lines(downloads[1].content)) : SoundUrl(u)

\* a file of several URLs from several pages has been downloaded
SoundUrlSetWitness ==
    /\ pc = "done"
    /\ lastScan.page >= 2
    /\ Len(allUrls) >= 3
    /\ Len(Lines(downloads[1].content)) >= 3

-----------------------------------------------------------------------------
(* C18 *)

\* the sum of the counts of the page lines lo..hi
RECURSIVE SumFound(_, _, _)
SumFound(lines, lo, hi) ==
    IF lo > hi THEN 0
    ELSE IF lo = hi THEN lines[lo].found
    ELSE SumFound(lines, lo, (lo + hi) \div 2) +
         SumFound(lines, (lo + hi) \div 2 + 1, hi)

ReportedSum == SumFound(PageLines, 1, Len(PageLines))

====
